---- MODULE Spec2Model ----
(***************************************************************************)
(* Model of the Mijn Liander integration: the token lifecycle and polling  *)
(* routine of LianderDataUpdateCoordinator (coordinator.py) and the field  *)
(* mapping of LianderSensor.native_value (sensor.py).                      *)
(*                                                                         *)
(* Time is counted in whole minutes since the Unix epoch.  A JWT is a      *)
(* record: its nonce tells two issued tokens apart, its form says what     *)
(* jwt.decode and datetime.fromtimestamp make of it, exp is the exp claim. *)
(***************************************************************************)
EXTENDS Integers, Sequences, FiniteSets, TLC

VARIABLES
    now,          \* datetime.now(timezone.utc), in minutes
    token,        \* self._token
    expiry,       \* self._token_expiry
    pc,           \* where the poll of the coordinator is suspended
    result,       \* what the current / last _async_update_data call gave its caller
    logins,       \* login POSTs sent by the current / last poll
    gets,         \* GETs sent by the current / last poll
    getToken,     \* the bearer token of the GET of the current / last poll
    lastLogin,    \* jwt of the most recent successful renewal of this poll
    lastJwtForm,  \* form of the jwt of the most recent login response of this poll
    failedReq,    \* a login or GET of this poll has failed
    pollUsable,   \* the token was stored and not within the buffer when the poll started
    lastCheck,    \* inputs and outputs of the most recent is_token_expired call
    getBody,      \* parsed body of the GET response of this poll
    inflight,     \* HTTP requests of the coordinator sent and not yet answered
    lastResp,     \* the HTTP response this poll received last
    sensorData,   \* coordinator.data as read by the sensor entities
    sensorKey,    \* entity_description.key of the sensor being evaluated
    sensorValue,  \* what native_value returned
    binaryKey,    \* entity_description.key of the binary sensor being evaluated
    entityRead,   \* the entity property that was read last
    entityValue,  \* what that property returned
    acctToken,    \* _token of the coordinator of each config entry
    acctExpiry,   \* _token_expiry of the coordinator of each config entry
    acctPc,       \* where the poll of each entry's coordinator is suspended
    acctResult,   \* how the last refresh of each entry's coordinator ended
    entryState,   \* state of each config entry in the host
    hassData,     \* hass.data[DOMAIN]: the coordinator stored under each entry id
    setupResult,  \* what async_setup_entry / async_unload_entry returned last, per entry
    platformData, \* what the platforms of each entry found under its id in hass.data[DOMAIN]
    actor,        \* the entry whose operation took the last step
    flowInput,    \* user_input of the config flow step being handled
    flowPc,       \* where async_step_user is suspended
    flowResult,   \* the FlowResult async_step_user returned last
    flowLogins,   \* login requests sent by the current / last async_step_user call
    flowResp,     \* the login response _validate_input received last
    entries       \* unique ids of the config entries of this domain

coordVars == <<now, token, expiry, pc, result, logins, gets, getToken, lastLogin,
               lastJwtForm, failedReq, pollUsable, lastCheck, getBody,
               inflight, lastResp>>
sensorVars == <<sensorData, sensorKey, sensorValue>>
entityVars == <<binaryKey, entityRead, entityValue>>
acctVars == <<acctToken, acctExpiry, acctPc, acctResult, entryState, hassData, setupResult,
              platformData, actor>>
flowVars == <<flowInput, flowPc, flowResult, flowLogins, flowResp, entries>>
restVars == <<acctVars, flowVars>>
nonCoordVars == <<sensorVars, entityVars, restVars>>
vars == <<coordVars, nonCoordVars>>

----------------------------------------------------------------------------
(* Bounds *)

MaxNow == 4

(* timedelta(minutes=5), timedelta(minutes=30), timedelta(hours=1) *)
TokenBuffer == 5
WarnWindow == 30
DefaultLifetime == 60

(* exp claims the login endpoint hands out, relative to the clock *)
ExpOffsets == {4, 5, 6, 30, 31}

Nonces == {"a", "b"}

----------------------------------------------------------------------------
(* Values *)

NoneToken == [nonce |-> "none", form |-> "none", exp |-> 0]
EmptyToken == [nonce |-> "empty", form |-> "empty", exp |-> 0]
NoExpiry == [set |-> FALSE, at |-> 0]
ExpiryAt(t) == [set |-> TRUE, at |-> t]

(* `not self._token` *)
Falsy(tok) == tok.form \in {"none", "empty"}

(* the jwt values a login response can carry at time t *)
IssuedTokens(t) ==
    { [nonce |-> n, form |-> f, exp |-> 0] :
        n \in Nonces, f \in {"garbage", "no_exp", "bad_exp"} }
    \cup { [nonce |-> n, form |-> "exp", exp |-> e] :
        n \in Nonces, e \in {0} \cup { t + d : d \in ExpOffsets } }

JwtValues(t) == {NoneToken, EmptyToken} \cup IssuedTokens(t)

(* what can come back from the POST to API_LOGIN_URL *)
LoginResponses(t) ==
    { [net |-> x, status |-> 0, body |-> "none", jwt |-> NoneToken] :
        x \in {"ClientConnectionError", "TimeoutError"} }
    \cup { [net |-> "ok", status |-> s, body |-> "dict", jwt |-> NoneToken] :
        s \in {401, 503} }
    \cup { [net |-> "ok", status |-> 200, body |-> b, jwt |-> NoneToken] :
        b \in {"not_json", "bad_json", "list"} }
    \cup { [net |-> "ok", status |-> 200, body |-> "dict", jwt |-> j] :
        j \in JwtValues(t) }

Payloads == {"p1", "p2"}
NoPayload == "none"

(* what can come back from the GET of API_AANSLUITINGEN_URL *)
GetResponses ==
    { [net |-> x, status |-> 0, body |-> "none", payload |-> NoPayload] :
        x \in {"ClientConnectionError", "TimeoutError"} }
    \cup { [net |-> "ok", status |-> s, body |-> "json", payload |-> "p1"] :
        s \in {401, 503} }
    \cup { [net |-> "ok", status |-> 200, body |-> b, payload |-> NoPayload] :
        b \in {"not_json", "bad_json"} }
    \cup { [net |-> "ok", status |-> 200, body |-> "json", payload |-> p] :
        p \in Payloads }

NoResult == [status |-> "none", exc |-> "none", cause |-> "none", payload |-> NoPayload]
Pending == [status |-> "pending", exc |-> "none", cause |-> "none", payload |-> NoPayload]
Raised(exc, cause) == [status |-> "raised", exc |-> exc, cause |-> cause, payload |-> NoPayload]
Returned(p) == [status |-> "ok", exc |-> "none", cause |-> "none", payload |-> p]

NoResp == [kind |-> "none"]
LoginResp(resp) == [kind |-> "login", resp |-> resp]
GetResp(resp) == [kind |-> "get", resp |-> resp]

(* requests a step of the poll puts in flight *)
Sends(step) == IF step \in {"login1", "login2", "get"} THEN 1 ELSE 0

NoCheck == [called |-> FALSE, set |-> FALSE, at |-> 0, t |-> 0,
            expired |-> FALSE, warned |-> FALSE]

----------------------------------------------------------------------------
(* Exception classes *)

(* aiohttp.ClientError and its subclasses *)
IsClientError(exc) ==
    exc \in {"ClientError", "ClientConnectionError", "ClientResponseError", "ContentTypeError"}

(* response.raise_for_status() *)
raise_for_status(status) == status >= 400

----------------------------------------------------------------------------
(* LianderDataUpdateCoordinator *)

(* is_token_expired with the buffer comparison made strict *)
is_token_expired_strict(exp, t) ==
    IF ~exp.set
    THEN [expired |-> TRUE, warned |-> FALSE]
    ELSE [expired |-> exp.at - TokenBuffer < t,
          warned |-> exp.at - WarnWindow <= t]

(* is_token_expired with the warning window used as the renewal buffer *)
is_token_expired_early(exp, t) ==
    IF ~exp.set
    THEN [expired |-> TRUE, warned |-> FALSE]
    ELSE [expired |-> exp.at - WarnWindow <= t,
          warned |-> exp.at - WarnWindow <= t]

(* is_token_expired with the warning comparison made strict *)
is_token_expired_warn_strict(exp, t) ==
    IF ~exp.set
    THEN [expired |-> TRUE, warned |-> FALSE]
    ELSE [expired |-> exp.at - TokenBuffer <= t,
          warned |-> exp.at - WarnWindow < t]

(* is_token_expired taking a missing expiry for a valid one *)
is_token_expired_unset_valid(exp, t) ==
    IF ~exp.set
    THEN [expired |-> FALSE, warned |-> FALSE]
    ELSE [expired |-> exp.at - TokenBuffer <= t,
          warned |-> exp.at - WarnWindow <= t]

(* is_token_expired: the value returned and whether the warning was logged *)
is_token_expired(exp, t) ==
    IF ~exp.set
    THEN [expired |-> TRUE, warned |-> FALSE]
    ELSE [expired |-> exp.at - TokenBuffer <= t,
          warned |-> exp.at - WarnWindow <= t]

(* the except clauses of _async_renew_token without the final `except Exception` *)
RenewExcept_narrow(exc) ==
    IF exc \in {"ContentTypeError", "KeyError"} THEN "UpdateFailed"
    ELSE IF IsClientError(exc) THEN "UpdateFailed"
    ELSE exc

(* the except clauses of _async_renew_token: what is raised for an         *)
(* exception of class exc leaving the try block                            *)
RenewExcept(exc) ==
    IF exc \in {"ContentTypeError", "KeyError"} THEN "UpdateFailed"
    ELSE IF IsClientError(exc) THEN "UpdateFailed"
    ELSE "UpdateFailed"

(* the try block of _async_renew_token reading the claim as decoded_token["exp"] *)
RenewTry_exp_required(tok, exp, resp, t) ==
    IF resp.net # "ok" THEN [token |-> tok, expiry |-> exp, exc |-> resp.net]
    ELSE IF raise_for_status(resp.status)
    THEN [token |-> tok, expiry |-> exp, exc |-> "ClientResponseError"]
    ELSE IF resp.body = "not_json"
    THEN [token |-> tok, expiry |-> exp, exc |-> "ContentTypeError"]
    ELSE IF resp.body = "bad_json"
    THEN [token |-> tok, expiry |-> exp, exc |-> "JSONDecodeError"]
    ELSE IF resp.body = "list"
    THEN [token |-> tok, expiry |-> exp, exc |-> "AttributeError"]
    ELSE IF Falsy(resp.jwt)
    THEN [token |-> resp.jwt, expiry |-> exp, exc |-> "UpdateFailed"]
    ELSE IF resp.jwt.form = "garbage"
    THEN [token |-> resp.jwt, expiry |-> exp, exc |-> "UpdateFailed"]
    ELSE IF resp.jwt.form = "bad_exp"
    THEN [token |-> resp.jwt, expiry |-> exp, exc |-> "TypeError"]
    ELSE IF resp.jwt.form = "no_exp"
    THEN [token |-> resp.jwt, expiry |-> exp, exc |-> "KeyError"]
    ELSE IF resp.jwt.exp # 0
    THEN [token |-> resp.jwt, expiry |-> ExpiryAt(resp.jwt.exp), exc |-> "none"]
    ELSE [token |-> resp.jwt, expiry |-> ExpiryAt(t + DefaultLifetime), exc |-> "none"]

(* the try block of _async_renew_token keeping the new jwt in a local only *)
RenewTry_token_local(tok, exp, resp, t) ==
    IF resp.net # "ok" THEN [token |-> tok, expiry |-> exp, exc |-> resp.net]
    ELSE IF raise_for_status(resp.status)
    THEN [token |-> tok, expiry |-> exp, exc |-> "ClientResponseError"]
    ELSE IF resp.body = "not_json"
    THEN [token |-> tok, expiry |-> exp, exc |-> "ContentTypeError"]
    ELSE IF resp.body = "bad_json"
    THEN [token |-> tok, expiry |-> exp, exc |-> "JSONDecodeError"]
    ELSE IF resp.body = "list"
    THEN [token |-> tok, expiry |-> exp, exc |-> "AttributeError"]
    ELSE IF Falsy(resp.jwt)
    THEN [token |-> tok, expiry |-> exp, exc |-> "UpdateFailed"]
    ELSE IF resp.jwt.form = "garbage"
    THEN [token |-> tok, expiry |-> exp, exc |-> "UpdateFailed"]
    ELSE IF resp.jwt.form = "bad_exp"
    THEN [token |-> tok, expiry |-> exp, exc |-> "TypeError"]
    ELSE IF resp.jwt.form = "exp" /\ resp.jwt.exp # 0
    THEN [token |-> tok, expiry |-> ExpiryAt(resp.jwt.exp), exc |-> "none"]
    ELSE [token |-> tok, expiry |-> ExpiryAt(t + DefaultLifetime), exc |-> "none"]

(* the try block of _async_renew_token: the fields after it and the class  *)
(* of the exception that left it ("none" when it ran to its end)           *)
RenewTry(tok, exp, resp, t) ==
    IF resp.net # "ok" THEN [token |-> tok, expiry |-> exp, exc |-> resp.net]
    ELSE IF raise_for_status(resp.status)
    THEN [token |-> tok, expiry |-> exp, exc |-> "ClientResponseError"]
    ELSE IF resp.status = 401
    THEN [token |-> tok, expiry |-> exp, exc |-> "UpdateFailed"]
    ELSE IF resp.body = "not_json"
    THEN [token |-> tok, expiry |-> exp, exc |-> "ContentTypeError"]
    ELSE IF resp.body = "bad_json"
    THEN [token |-> tok, expiry |-> exp, exc |-> "JSONDecodeError"]
    ELSE IF resp.body = "list"
    THEN [token |-> tok, expiry |-> exp, exc |-> "AttributeError"]
    ELSE IF Falsy(resp.jwt)
    THEN [token |-> resp.jwt, expiry |-> exp, exc |-> "UpdateFailed"]
    ELSE IF resp.jwt.form = "garbage"
    THEN [token |-> resp.jwt, expiry |-> exp, exc |-> "UpdateFailed"]
    ELSE IF resp.jwt.form = "bad_exp"
    THEN [token |-> resp.jwt, expiry |-> exp, exc |-> "TypeError"]
    ELSE IF resp.jwt.form = "exp" /\ resp.jwt.exp # 0
    THEN [token |-> resp.jwt, expiry |-> ExpiryAt(resp.jwt.exp), exc |-> "none"]
    ELSE [token |-> resp.jwt, expiry |-> ExpiryAt(t + DefaultLifetime), exc |-> "none"]

(* _async_renew_token as its caller sees it *)
async_renew_token(tok, exp, resp, t) ==
    LET r == RenewTry(tok, exp, resp, t) IN
    [token |-> r.token, expiry |-> r.expiry, cause |-> r.exc,
     exc |-> IF r.exc = "none" THEN "none" ELSE RenewExcept(r.exc)]

(* get_valid_token from the expiry check on (lines 166-172), up to the     *)
(* next await or its end                                                   *)
ExpiryCheckStep(tok, exp, t) ==
    IF is_token_expired(exp, t).expired THEN "login2"
    ELSE IF tok = NoneToken THEN "raise"
    ELSE "get"

(* get_valid_token after the second renewal (lines 170-172) *)
ReturnStep(tok) == IF tok = NoneToken THEN "raise" ELSE "get"

MkCheck(exp, t) ==
    [called |-> TRUE, set |-> exp.set, at |-> exp.at, t |-> t,
     expired |-> is_token_expired(exp, t).expired,
     warned |-> is_token_expired(exp, t).warned]

(* the except clauses of _async_update_data *)
UpdateExcept(exc) ==
    IF exc = "ContentTypeError" THEN "UpdateFailed"
    ELSE IF IsClientError(exc) THEN "UpdateFailed"
    ELSE "UpdateFailed"

(* the try block of _async_update_data *)
UpdateTry(resp) ==
    IF resp.net # "ok" THEN [exc |-> resp.net, data |-> NoPayload]
    ELSE IF raise_for_status(resp.status)
    THEN [exc |-> "ClientResponseError", data |-> NoPayload]
    ELSE IF resp.status \in {401, 503} THEN [exc |-> "UpdateFailed", data |-> NoPayload]
    ELSE IF resp.body = "not_json" THEN [exc |-> "ContentTypeError", data |-> NoPayload]
    ELSE IF resp.body = "bad_json" THEN [exc |-> "JSONDecodeError", data |-> NoPayload]
    ELSE [exc |-> "none", data |-> resp.payload]

(* what _async_update_data gives its caller for a GET response *)
UpdateResult(resp) ==
    LET r == UpdateTry(resp) IN
    IF r.exc = "none" THEN Returned(r.data) ELSE Raised(UpdateExcept(r.exc), r.exc)

(* the poll moves on, the GET carrying the token read before the renewal *)
Proceed_stale(step, tok) ==
    /\ pc' = IF step = "raise" THEN "idle" ELSE step
    /\ logins' = IF step \in {"login1", "login2"} THEN logins + 1 ELSE logins
    /\ gets' = IF step = "get" THEN gets + 1 ELSE gets
    /\ getToken' = IF step = "get" THEN token ELSE getToken
    /\ result' = IF step = "raise" THEN Raised("UpdateFailed", "TokenMissing") ELSE Pending

(* the poll moves to step `step`; tok is self._token *)

Proceed(step, tok) ==
    /\ pc' = IF step = "raise" THEN "idle" ELSE step
    /\ logins' = IF step \in {"login1", "login2"} THEN logins + 1 ELSE logins
    /\ gets' = IF step = "get" THEN gets + 1 ELSE gets
    /\ getToken' = IF step = "get" THEN tok ELSE getToken
    /\ result' = IF step = "raise" THEN Raised("UpdateFailed", "TokenMissing") ELSE Pending

(* get_valid_token starting the renewal of an expired token as a task it  *)
(* does not await                                                         *)
StartPoll_background ==
    /\ pc = "idle"
    /\ pollUsable' = (~Falsy(token) /\ expiry.set /\ now < expiry.at - TokenBuffer)
    /\ lastLogin' = NoneToken
    /\ lastJwtForm' = "none"
    /\ failedReq' = FALSE
    /\ getBody' = NoPayload
    /\ lastResp' = NoResp
    /\ IF Falsy(token)
       THEN /\ pc' = "login1"
            /\ inflight' = inflight + 1
            /\ logins' = 1
            /\ gets' = 0
            /\ getToken' = NoneToken
            /\ result' = Pending
            /\ UNCHANGED lastCheck
       ELSE /\ lastCheck' = MkCheck(expiry, now)
            /\ LET step == ExpiryCheckStep(token, expiry, now) IN
               /\ pc' = IF step = "raise" THEN "idle" ELSE step
               /\ inflight' = IF step = "login2" THEN inflight + 2
                              ELSE inflight + Sends(step)
               /\ logins' = IF step = "login2" THEN 1 ELSE 0
               /\ gets' = IF step \in {"get", "login2"} THEN 1 ELSE 0
               /\ getToken' = IF step \in {"get", "login2"} THEN token ELSE NoneToken
               /\ result' = IF step = "raise"
                            THEN Raised("UpdateFailed", "TokenMissing") ELSE Pending
    /\ UNCHANGED <<now, token, expiry>>
    /\ UNCHANGED nonCoordVars

(* _async_update_data is called: get_valid_token runs to its first await *)
StartPoll ==
    /\ pc = "idle"
    /\ pollUsable' = (~Falsy(token) /\ expiry.set /\ now < expiry.at - TokenBuffer)
    /\ lastLogin' = NoneToken
    /\ lastJwtForm' = "none"
    /\ failedReq' = FALSE
    /\ getBody' = NoPayload
    /\ lastResp' = NoResp
    /\ IF Falsy(token)
       THEN /\ pc' = "login1"
            /\ inflight' = inflight + 1
            /\ logins' = 1
            /\ gets' = 0
            /\ getToken' = NoneToken
            /\ result' = Pending
            /\ UNCHANGED lastCheck
       ELSE /\ lastCheck' = MkCheck(expiry, now)
            /\ LET step == ExpiryCheckStep(token, expiry, now) IN
               /\ pc' = IF step = "raise" THEN "idle" ELSE step
               /\ inflight' = inflight + Sends(step)
               /\ logins' = IF step = "login2" THEN 1 ELSE 0
               /\ gets' = IF step = "get" THEN 1 ELSE 0
               /\ getToken' = IF step = "get" THEN token ELSE NoneToken
               /\ result' = IF step = "raise"
                            THEN Raised("UpdateFailed", "TokenMissing") ELSE Pending
    /\ UNCHANGED <<now, token, expiry>>
    /\ UNCHANGED nonCoordVars

(* get_valid_token swallowing a failure of the first renewal *)
AfterRenew_swallow(at, r, t) ==
    IF at = "login1" THEN ExpiryCheckStep(r.token, r.expiry, t)
    ELSE IF r.exc # "none" THEN "fail"
    ELSE ReturnStep(r.token)

(* get_valid_token after an awaited _async_renew_token (lines 163-172):   *)
(* the exception propagates, or the function runs on to its next await    *)
AfterRenew(at, r, t) ==
    IF r.exc # "none" THEN "fail"
    ELSE IF at = "login1" THEN ExpiryCheckStep(r.token, r.expiry, t)
    ELSE ReturnStep(r.token)

(* the login POST completes; _async_renew_token and get_valid_token run on *)
LoginResponse ==
    /\ pc \in {"login1", "login2"}
    /\ \E resp \in LoginResponses(now) :
        LET r == async_renew_token(token, expiry, resp, now)
            step == AfterRenew(pc, r, now)
        IN
        /\ token' = r.token
        /\ expiry' = r.expiry
        /\ lastJwtForm' = IF resp.net = "ok" /\ resp.status = 200 /\ resp.body = "dict"
                          THEN resp.jwt.form ELSE "none"
        /\ failedReq' = (r.exc # "none")
        /\ lastResp' = LoginResp(resp)
        /\ inflight' = inflight - 1 + Sends(step)
        /\ lastLogin' = IF r.exc = "none" THEN resp.jwt ELSE lastLogin
        /\ lastCheck' = IF pc = "login1" /\ step # "fail"
                        THEN MkCheck(r.expiry, now) ELSE lastCheck
        /\ IF step = "fail"
           THEN /\ pc' = "idle"
                /\ result' = Raised(r.exc, r.cause)
                /\ UNCHANGED <<logins, gets, getToken>>
           ELSE Proceed(step, r.token)
    /\ UNCHANGED <<now, pollUsable, getBody>>
    /\ UNCHANGED nonCoordVars

(* _async_update_data sending the GET again after a failed one *)
GetResponse_retry ==
    /\ pc = "get"
    /\ \E resp \in GetResponses :
        /\ result' = IF UpdateTry(resp).exc # "none" /\ gets < 2
                     THEN Pending ELSE UpdateResult(resp)
        /\ failedReq' = (UpdateTry(resp).exc # "none")
        /\ getBody' = resp.payload
        /\ lastResp' = GetResp(resp)
        /\ inflight' = IF UpdateTry(resp).exc # "none" /\ gets < 2
                       THEN inflight ELSE inflight - 1
        /\ pc' = IF UpdateTry(resp).exc # "none" /\ gets < 2 THEN "get" ELSE "idle"
        /\ gets' = IF UpdateTry(resp).exc # "none" /\ gets < 2 THEN gets + 1 ELSE gets
    /\ UNCHANGED <<now, token, expiry, logins, getToken, lastLogin,
                   lastJwtForm, pollUsable, lastCheck>>
    /\ UNCHANGED nonCoordVars

(* _async_update_data dropping the stored token when the GET is rejected *)
GetResponse_invalidate ==
    /\ pc = "get"
    /\ \E resp \in GetResponses :
        /\ result' = UpdateResult(resp)
        /\ failedReq' = (UpdateTry(resp).exc # "none")
        /\ getBody' = resp.payload
        /\ lastResp' = GetResp(resp)
        /\ token' = IF resp.net = "ok" /\ resp.status = 401 THEN NoneToken ELSE token
    /\ inflight' = inflight - 1
    /\ pc' = "idle"
    /\ UNCHANGED <<now, expiry, logins, gets, getToken, lastLogin,
                   lastJwtForm, pollUsable, lastCheck>>
    /\ UNCHANGED nonCoordVars

(* the GET completes; _async_update_data returns or raises *)
GetResponse ==
    /\ pc = "get"
    /\ \E resp \in GetResponses :
        /\ result' = UpdateResult(resp)
        /\ failedReq' = (UpdateTry(resp).exc # "none")
        /\ getBody' = resp.payload
        /\ lastResp' = GetResp(resp)
    /\ inflight' = inflight - 1
    /\ pc' = "idle"
    /\ UNCHANGED <<now, token, expiry, logins, gets, getToken, lastLogin,
                   lastJwtForm, pollUsable, lastCheck>>
    /\ UNCHANGED nonCoordVars

(* the clock advances, also while a request is awaited *)
Tick ==
    /\ now < MaxNow
    /\ now' = now + 1
    /\ UNCHANGED <<token, expiry, pc, result, logins, gets, getToken, lastLogin,
                   lastJwtForm, failedReq, pollUsable, lastCheck, getBody,
                   inflight, lastResp>>
    /\ UNCHANGED nonCoordVars

----------------------------------------------------------------------------
(* JSON values as Python sees them.  A str holds its characters.           *)

PyNone == [ty |-> "none"]
PyStr(chars) == [ty |-> "str", s |-> chars]
PyInt(n) == [ty |-> "int", n |-> n]
PyList(items) == [ty |-> "list", items |-> items]
PyDict(d) == [ty |-> "dict", d |-> d]
EmptyDict == [ty |-> "dict", d |-> [k \in {} |-> PyNone]]
Unset == [ty |-> "unset"]

(* bool(v) *)
Truthy(v) ==
    CASE v.ty = "none" -> FALSE
      [] v.ty = "str" -> v.s # <<>>
      [] v.ty = "int" -> v.n # 0
      [] v.ty = "list" -> v.items # <<>>
      [] v.ty = "dict" -> DOMAIN v.d # {}
      [] OTHER -> FALSE

(* d.get(k, default) *)
Get(d, k, default) == IF k \in DOMAIN d.d THEN d.d[k] ELSE default

(* str.strip() *)
Whitespace == {" ", "\t", "\n", "\r"}

RECURSIVE lstrip(_)
lstrip(cs) ==
    IF cs # <<>> /\ Head(cs) \in Whitespace THEN lstrip(Tail(cs)) ELSE cs

RECURSIVE rstrip(_)
rstrip(cs) ==
    IF cs # <<>> /\ cs[Len(cs)] \in Whitespace
    THEN rstrip(SubSeq(cs, 1, Len(cs) - 1)) ELSE cs

strip(cs) == rstrip(lstrip(cs))

(* format(v) inside an f-string, for the str and None values of the payloads *)
Format(v) ==
    IF v.ty = "str" THEN v.s ELSE <<"N", "o", "n", "e">>

(* example_data, coordinator.py *)
example_data ==
    PyList(<<
        PyDict([
            adres |-> PyDict([
                postcode |-> PyStr(<<"1", "0", "0", "0", " ", "A", "A", "B">>),
                straat |-> PyStr(<<"M", "i", "j", "n", "s", "t", "r", "a", "a", "t">>),
                huisnummer |-> PyStr(<<"1">>),
                toevoeging |-> PyStr(<<>>),
                plaats |-> PyStr(<<"A", "M", "S", "T", "E", "R", "D", "A", "M">>)]),
            aansluitingen |-> PyDict([
                elektra |-> PyList(<<
                    PyDict([
                        type |-> PyStr(<<"E", "l", "e", "k", "t", "r", "a", "A", "a", "n", "s", "l", "u", "i", "t", "i", "n", "g">>),
                        ean |-> PyStr(<<"1", "2", "3", "4", "5", "6", "7", "8", "9", "0", "1", "2", "3", "4", "5", "6", "7", "8">>),
                        aansluitwaarde |-> PyStr(<<"3", "x", "2", "5", "A">>),
                        status |-> PyStr(<<"I", "n", " ", "b", "e", "d", "r", "i", "j", "f">>),
                        netwerkkosten |-> PyStr(<<"4", "0", "0", ".", "9", "2">>),
                        meters |-> PyList(<<
                            PyDict([
                                type |-> PyStr(<<"E", "l", "e", "k", "t", "r", "a", "m", "e", "t", "e", "r">>),
                                meternummer |-> PyStr(<<"E", "0", "0", "0", "0", "0", "0", "0", "0", "0", "0", "0", "0", "0", "0", "0", "0">>),
                                aantalTelwerken |-> PyInt(4),
                                aantalFasen |-> PyStr(<<"3">>)])
                        >>),
                        maximaalVermogen |-> PyStr(<<"1", "7">>)])
                >>),
                gas |-> PyList(<<>>)])
        ])
    >>)

(* keys of SENSOR_DESCRIPTIONS *)
SensorKeys ==
    {"address", "electricity_ean", "connection_capacity", "status", "network_costs",
     "maximum_power", "number_of_meters", "meter_number", "number_of_registers",
     "number_of_phases"}

(* the f-string with a blank between house number and addition *)
FormatAddress_spaced(address) ==
    LET street == Get(address, "straat", PyStr(<<>>))
        house_number == Get(address, "huisnummer", PyStr(<<>>))
        addition == Get(address, "toevoeging", PyStr(<<>>))
        postal_code == Get(address, "postcode", PyStr(<<>>))
        city == Get(address, "plaats", PyStr(<<>>))
    IN PyStr(strip(Format(street) \o <<" ">> \o Format(house_number) \o <<" ">>
                   \o Format(addition) \o <<" ">> \o Format(postal_code)
                   \o <<" ">> \o Format(city)))

(* native_value, the address branch: the f-string and strip() *)
FormatAddress(address) ==
    LET street == Get(address, "straat", PyStr(<<>>))
        house_number == Get(address, "huisnummer", PyStr(<<>>))
        addition == Get(address, "toevoeging", PyStr(<<>>))
        postal_code == Get(address, "postcode", PyStr(<<>>))
        city == Get(address, "plaats", PyStr(<<>>))
    IN PyStr(strip(Format(street) \o <<" ">> \o Format(house_number) \o Format(addition)
                   \o <<" ">> \o Format(postal_code) \o <<" ">> \o Format(city)))

(* native_value, the if/elif chain over the first electricity connection *)
ElektraValue(elektra, key) ==
    CASE key = "electricity_ean" -> Get(elektra, "ean", PyNone)
      [] key = "connection_capacity" -> Get(elektra, "aansluitwaarde", PyNone)
      [] key = "status" -> Get(elektra, "status", PyNone)
      [] key = "network_costs" -> Get(elektra, "netwerkkosten", PyNone)
      [] key = "maximum_power" -> Get(elektra, "maximaalVermogen", PyNone)
      [] OTHER -> PyNone

(* native_value, the block over the meters of the connection *)
MeterValue(meters, key, value) ==
    IF ~Truthy(meters) THEN value
    ELSE LET meter == meters.items[1]
             v1 == IF key = "number_of_meters" THEN PyInt(Len(meters.items)) ELSE value
         IN CASE key = "meter_number" -> Get(meter, "meternummer", PyNone)
              [] key = "number_of_registers" -> Get(meter, "aantalTelwerken", PyNone)
              [] key = "number_of_phases" -> Get(meter, "aantalFasen", PyNone)
              [] OTHER -> v1

(* native_value, one pass of the loop body: returned says whether it returned *)
AccountValue(account, key) ==
    LET address == Get(account, "adres", EmptyDict)
        elektra_connections == Get(Get(account, "aansluitingen", EmptyDict),
                                   "elektra", PyList(<<>>))
    IN IF Truthy(address) /\ address.ty = "dict" /\ key = "address"
       THEN [returned |-> TRUE, value |-> FormatAddress(address)]
       ELSE IF Truthy(elektra_connections)
       THEN LET elektra == elektra_connections.items[1]
                value == MeterValue(Get(elektra, "meters", PyList(<<>>)), key,
                                    ElektraValue(elektra, key))
            IN [returned |-> value # PyNone, value |-> value]
       ELSE [returned |-> FALSE, value |-> PyNone]

(* native_value, the loop over the accounts from index i on *)
RECURSIVE AccountsValue(_, _, _)
AccountsValue(items, i, key) ==
    IF i > Len(items) THEN PyNone
    ELSE IF AccountValue(items[i], key).returned THEN AccountValue(items[i], key).value
    ELSE AccountsValue(items, i + 1, key)

(* LianderSensor.native_value *)
native_value(data, key) ==
    IF Truthy(data) THEN AccountsValue(data.items, 1, key) ELSE PyNone

(* payloads the coordinator can hold: the fixture and variations of it *)
FixtureAccount == example_data.items[1]
FixtureAddress == FixtureAccount.d.adres
FixtureElektra == FixtureAccount.d.aansluitingen.d.elektra.items[1]
FixtureMeter == FixtureElektra.d.meters.items[1]

AccountOf(address, elektraList) ==
    PyDict([adres |-> address,
            aansluitingen |-> PyDict([elektra |-> PyList(elektraList),
                                      gas |-> PyList(<<>>)])])

SensorPayloads ==
    {PyNone, PyList(<<>>), example_data}
    \cup { PyList(<<AccountOf(a, e)>>) :
            a \in {FixtureAddress, EmptyDict, PyStr(<<"n", "/", "a">>),
                   PyDict([FixtureAddress.d EXCEPT !.toevoeging = PyStr(<<"A">>)]),
                   PyDict([FixtureAddress.d EXCEPT !.plaats = PyStr(<<>>)])},
            e \in {<<>>, <<FixtureElektra>>,
                   <<PyDict([FixtureElektra.d EXCEPT !.meters = PyList(<<>>)])>>,
                   <<PyDict([FixtureElektra.d EXCEPT
                                !.meters = PyList(<<FixtureMeter, FixtureMeter>>)])>>,
                   <<PyDict([FixtureElektra.d EXCEPT !.status = PyStr(<<"B", "u", "i", "t", "e", "n", " ", "b", "e", "d", "r", "i", "j", "f">>),
                                                     !.ean = PyNone])>>} }
    \cup { PyList(<<PyDict([aansluitingen |-> PyDict([gas |-> PyList(<<>>)])]),
                    FixtureAccount>>) }

----------------------------------------------------------------------------
(* The other entity properties: LianderSensor.icon and LianderBinarySensor *)

PyBool(b) == [ty |-> "bool", b |-> b]
PyIcon(name) == [ty |-> "icon", name |-> name]

(* icon of SENSOR_DESCRIPTIONS *)
DescriptionIcon(key) ==
    CASE key = "address" -> "mdi:home"
      [] key = "electricity_ean" -> "mdi:flash-outline"
      [] key = "connection_capacity" -> "mdi:power-socket"
      [] key = "status" -> "mdi:check-circle"
      [] key = "network_costs" -> "mdi:currency-eur"
      [] key = "maximum_power" -> "mdi:flash-triangle-outline"
      [] key = "number_of_meters" -> "mdi:counter"
      [] key = "meter_number" -> "mdi:numeric"
      [] key = "number_of_registers" -> "mdi:counter"
      [] key = "number_of_phases" -> "mdi:trending-up"

(* icon_inactive of SENSOR_DESCRIPTIONS, "" where there is none *)
DescriptionIconInactive(key) == IF key = "status" THEN "mdi:cancel" ELSE ""

(* LianderSensor.is_inactive *)
is_inactive(data, key) ==
    native_value(data, key) \notin {PyStr(<<"I", "n", " ", "b", "e", "d", "r", "i", "j", "f">>), PyStr(<<"A", "c", "t", "i", "v", "e">>)}

(* LianderSensor.icon *)
icon(data, key) ==
    IF DescriptionIconInactive(key) # "" /\ is_inactive(data, key)
    THEN PyIcon(DescriptionIconInactive(key))
    ELSE PyIcon(DescriptionIcon(key))

(* keys of BINARY_SENSOR_DESCRIPTIONS *)
BinaryKeys ==
    {"contract", "toestemmingVoorUitlezen", "slimmeMeter", "geschiktVoorTerugleveren",
     "geschiktVoorDubbeltarief", "levertTerug"}

(* the electricity connections of one account *)
ElektraOf(account) ==
    Get(Get(account, "aansluitingen", EmptyDict), "elektra", PyList(<<>>))

(* is_on, one pass of the loop body *)
AccountIsOn(account, key) ==
    IF ~Truthy(ElektraOf(account)) THEN [returned |-> FALSE, value |-> PyBool(FALSE)]
    ELSE LET elektra == ElektraOf(account).items[1]
             meters == Get(elektra, "meters", PyList(<<>>))
         IN IF key \in {"contract", "toestemmingVoorUitlezen"}
            THEN [returned |-> TRUE, value |-> Get(elektra, key, PyBool(FALSE))]
            ELSE IF key \in {"slimmeMeter", "geschiktVoorTerugleveren",
                             "geschiktVoorDubbeltarief"} /\ Truthy(meters)
            THEN [returned |-> TRUE, value |-> Get(meters.items[1], key, PyBool(FALSE))]
            ELSE IF key = "levertTerug"
            THEN [returned |-> TRUE, value |-> Get(elektra, key, PyBool(FALSE))]
            ELSE [returned |-> FALSE, value |-> PyBool(FALSE)]

(* is_on, the loop over the accounts from index i on *)
RECURSIVE AccountsIsOn(_, _, _)
AccountsIsOn(items, i, key) ==
    IF i > Len(items) THEN PyBool(FALSE)
    ELSE IF AccountIsOn(items[i], key).returned THEN AccountIsOn(items[i], key).value
    ELSE AccountsIsOn(items, i + 1, key)

(* LianderBinarySensor.is_on *)
is_on(data, key) ==
    IF ~Truthy(data) THEN PyBool(FALSE) ELSE AccountsIsOn(data.items, 1, key)

(* the comprehension of extra_state_attributes from index i on *)
RECURSIVE AllElektra(_, _)
AllElektra(items, i) ==
    IF i > Len(items) THEN <<>>
    ELSE ElektraOf(items[i]).items \o AllElektra(items, i + 1)

(* LianderBinarySensor.extra_state_attributes *)
extra_state_attributes(data) ==
    PyDict([attribution |-> PyStr(<<"D", "a", "t", "a", " ", "p", "r", "o", "v", "i", "d", "e", "d", " ", "b", "y", " ", "L", "i", "a", "n", "d", "e", "r">>),
            Elektra |-> PyList(IF Truthy(data) THEN AllElektra(data.items, 1) ELSE <<>>)])

(* payloads with the fields the binary sensors read *)
SmartMeter ==
    PyDict(FixtureMeter.d
           @@ [slimmeMeter |-> PyBool(TRUE), geschiktVoorTerugleveren |-> PyBool(FALSE)])

ContractElektra ==
    PyDict([FixtureElektra.d EXCEPT !.meters = PyList(<<SmartMeter>>)]
           @@ [contract |-> PyBool(TRUE), levertTerug |-> PyBool(TRUE)])

EntityPayloads ==
    SensorPayloads
    \cup { PyList(<<AccountOf(FixtureAddress, <<ContractElektra>>)>>),
           PyList(<<AccountOf(EmptyDict, <<>>),
                    AccountOf(FixtureAddress, <<ContractElektra>>)>>) }

(* the property icon of a sensor is read *)
ReadIcon ==
    /\ entityValue' = icon(sensorData, sensorKey)
    /\ entityRead' = "icon"
    /\ UNCHANGED binaryKey
    /\ UNCHANGED sensorVars
    /\ UNCHANGED coordVars
    /\ UNCHANGED restVars

(* is_on asking the coordinator for a refresh, as the commented-out code  *)
(* of async_update would                                                  *)
ReadIsOn_refresh ==
    /\ \E key \in BinaryKeys :
        /\ binaryKey' = key
        /\ entityValue' = is_on(sensorData, key)
    /\ entityRead' = "is_on"
    /\ inflight' = inflight + 1
    /\ UNCHANGED sensorVars
    /\ UNCHANGED restVars
    /\ UNCHANGED <<now, token, expiry, pc, result, logins, gets, getToken, lastLogin,
                   lastJwtForm, failedReq, pollUsable, lastCheck, getBody, lastResp>>

(* the property is_on of a binary sensor is read *)
ReadIsOn ==
    /\ \E key \in BinaryKeys :
        /\ binaryKey' = key
        /\ entityValue' = is_on(sensorData, key)
    /\ entityRead' = "is_on"
    /\ UNCHANGED sensorVars
    /\ UNCHANGED coordVars
    /\ UNCHANGED restVars

(* the property extra_state_attributes of a binary sensor is read *)
ReadAttributes ==
    /\ entityValue' = extra_state_attributes(sensorData)
    /\ entityRead' = "extra_state_attributes"
    /\ UNCHANGED binaryKey
    /\ UNCHANGED sensorVars
    /\ UNCHANGED coordVars
    /\ UNCHANGED restVars

(* __init__ *)
CoordInit ==
    /\ now = 1
    /\ token = NoneToken
    /\ expiry = NoExpiry
    /\ pc = "idle"
    /\ result = NoResult
    /\ logins = 0
    /\ gets = 0
    /\ getToken = NoneToken
    /\ lastLogin = NoneToken
    /\ lastJwtForm = "none"
    /\ failedReq = FALSE
    /\ pollUsable = FALSE
    /\ lastCheck = NoCheck
    /\ getBody = NoPayload
    /\ inflight = 0
    /\ lastResp = NoResp

(* no sensor has been evaluated *)
SensorIdle ==
    /\ sensorData = PyNone
    /\ sensorKey = "address"
    /\ sensorValue = Unset

(* no other entity property has been read *)
EntityIdle ==
    /\ binaryKey = "contract"
    /\ entityRead = "none"
    /\ entityValue = Unset

(* no config entry of the domain exists yet, nothing is stored *)
Accounts == {"A", "B"}
Absent == "absent"

AcctIdle ==
    /\ acctToken = [a \in Accounts |-> NoneToken]
    /\ acctExpiry = [a \in Accounts |-> NoExpiry]
    /\ acctPc = [a \in Accounts |-> "idle"]
    /\ acctResult = [a \in Accounts |-> "none"]
    /\ entryState = [a \in Accounts |-> "not_loaded"]
    /\ hassData = [a \in Accounts |-> Absent]
    /\ setupResult = [a \in Accounts |-> "none"]
    /\ platformData = [a \in Accounts |-> "none"]
    /\ actor = "none"

NoInput == [given |-> FALSE]
NoFlowResult == [type |-> "none"]

(* no config flow step has been handled *)
FlowIdle ==
    /\ flowInput = NoInput
    /\ flowPc = "idle"
    /\ flowResult = NoFlowResult
    /\ flowLogins = <<>>
    /\ flowResp = NoResp
    /\ entries = {}

Init ==
    /\ CoordInit
    /\ SensorIdle
    /\ EntityIdle
    /\ AcctIdle
    /\ FlowIdle

Next == StartPoll \/ LoginResponse \/ GetResponse \/ Tick

Spec == Init /\ [][Next]_vars

(* a login response with a decodable token expiring more than 5 minutes   *)
(* after t, and a GET response with status 200 and a JSON body            *)
GoodLogin(r, t) ==
    /\ r.kind = "login"
    /\ r.resp.net = "ok"
    /\ r.resp.status = 200
    /\ r.resp.body = "dict"
    /\ r.resp.jwt.form = "exp"
    /\ r.resp.jwt.exp > t + 5

GoodGet(r) ==
    /\ r.kind = "get"
    /\ r.resp.net = "ok"
    /\ r.resp.status = 200
    /\ r.resp.body = "json"

(* The host keeps polling (the refresh is rescheduled every                *)
(* UPDATE_INTERVAL), every request ends (aiohttp.ClientTimeout(total=10)), *)
(* and the endpoints answer successfully again and again.                  *)
SpecLive ==
    /\ Init
    /\ [][Next]_vars
    /\ WF_vars(StartPoll)
    /\ WF_vars(LoginResponse)
    /\ WF_vars(GetResponse)
    /\ SF_vars(LoginResponse /\ GoodLogin(lastResp', now))
    /\ SF_vars(GetResponse /\ GoodGet(lastResp'))

----------------------------------------------------------------------------
(* The sensor entities: a sensor is evaluated against the coordinator data *)

(* the property native_value is read *)
Evaluate ==
    /\ sensorValue = Unset
    /\ sensorValue' = native_value(sensorData, sensorKey)
    /\ UNCHANGED <<sensorData, sensorKey>>
    /\ UNCHANGED entityVars
    /\ UNCHANGED coordVars
    /\ UNCHANGED restVars

InitSensor ==
    /\ CoordInit
    /\ sensorData \in SensorPayloads
    /\ sensorKey \in SensorKeys
    /\ sensorValue = Unset
    /\ EntityIdle
    /\ AcctIdle
    /\ FlowIdle

NextSensor == Evaluate

SpecSensor == InitSensor /\ [][NextSensor]_vars

(* a coordinator that holds a token, as after a successful first refresh *)
HeldToken == [nonce |-> "a", form |-> "exp", exp |-> 31]

InitEntities ==
    /\ now = 1
    /\ \/ token = NoneToken /\ expiry = NoExpiry
       \/ token = HeldToken /\ expiry = ExpiryAt(HeldToken.exp)
    /\ pc = "idle"
    /\ result = NoResult
    /\ logins = 0
    /\ gets = 0
    /\ getToken = NoneToken
    /\ lastLogin = NoneToken
    /\ lastJwtForm = "none"
    /\ failedReq = FALSE
    /\ pollUsable = FALSE
    /\ lastCheck = NoCheck
    /\ getBody = NoPayload
    /\ inflight = 0
    /\ lastResp = NoResp
    /\ sensorData \in EntityPayloads
    /\ sensorKey \in SensorKeys
    /\ sensorValue = Unset
    /\ EntityIdle
    /\ AcctIdle
    /\ FlowIdle

(* the entities of a loaded entry are read in any order *)
NextEntities == Evaluate \/ ReadIcon \/ ReadIsOn \/ ReadAttributes

SpecEntities == InitEntities /\ [][NextEntities]_vars

----------------------------------------------------------------------------
(* Config entries: each entry has a coordinator of its own; the host     *)
(* sets entries up, polls their coordinators and unloads them            *)

(* the login endpoint answers each account with tokens of that account *)
AccountNonce(a) == IF a = "A" THEN "a" ELSE "b"

AccountLoginResponses(a, t) ==
    { r \in LoginResponses(t) :
        /\ r.jwt.nonce \in {"none", "empty", AccountNonce(a)}
        /\ r.jwt.form \in {"none", "garbage", "exp"}
        /\ r.jwt.form = "exp" => r.jwt.exp \in {t + 4, t + 31}
        /\ r.net \in {"ok", "ClientConnectionError"}
        /\ r.status \in {0, 200, 401}
        /\ r.body \in {"none", "dict"} }

AccountGetResponses ==
    { r \in GetResponses :
        /\ r.net \in {"ok", "ClientConnectionError"}
        /\ r.status \in {0, 200, 503}
        /\ r.body \in {"none", "json"}
        /\ r.payload \in {NoPayload, "p1"} }

(* hass.data[DOMAIN] replaced by a dict holding only this entry *)
StoreCoordinator_overwrite(data, a) ==
    [b \in Accounts |-> IF b = a THEN a ELSE Absent]

(* hass.data.setdefault(DOMAIN, {}); hass.data[DOMAIN][entry_id] = coordinator *)
StoreCoordinator(data, a) ==
    [data EXCEPT ![a] = a]

(* hass.data[DOMAIN].pop(entry_id) when it is there *)
RemoveCoordinator(data, a) ==
    [data EXCEPT ![a] = Absent]

(* async_setup_entry storing the coordinator whatever the first refresh  *)
(* gave                                                                   *)
RefreshDone_store_always(a, ok) ==
    IF entryState[a] = "setup_in_progress"
    THEN /\ entryState' = [entryState EXCEPT ![a] =
                               IF ok THEN "forwarding" ELSE "setup_error"]
         /\ hassData' = StoreCoordinator(hassData, a)
         /\ setupResult' = [setupResult EXCEPT ![a] = IF ok THEN "pending" ELSE "False"]
    ELSE UNCHANGED <<entryState, hassData, setupResult>>

(* a refresh of entry a ends. The first refresh is awaited by             *)
(* async_setup_entry (lines 54-69): when it raised, False is returned;    *)
(* otherwise the coordinator is stored and the forwarding of the          *)
(* platforms is awaited                                                   *)
RefreshDone(a, ok) ==
    IF entryState[a] = "setup_in_progress"
    THEN /\ entryState' = [entryState EXCEPT ![a] =
                               IF ok THEN "forwarding" ELSE "setup_error"]
         /\ hassData' = IF ok THEN StoreCoordinator(hassData, a) ELSE hassData
         /\ setupResult' = [setupResult EXCEPT ![a] = IF ok THEN "pending" ELSE "False"]
    ELSE UNCHANGED <<entryState, hassData, setupResult>>

(* async_forward_entry_setups ends: the platforms have looked up          *)
(* hass.data[DOMAIN][entry_id]; async_setup_entry returns True            *)
ForwardPlatforms(a) ==
    /\ entryState[a] = "forwarding"
    /\ platformData' = [platformData EXCEPT ![a] = hassData[a]]
    /\ entryState' = [entryState EXCEPT ![a] = "loaded"]
    /\ setupResult' = [setupResult EXCEPT ![a] = "True"]
    /\ actor' = a
    /\ UNCHANGED <<acctToken, acctExpiry, acctPc, acctResult, hassData>>
    /\ UNCHANGED <<coordVars, sensorVars, entityVars, flowVars>>

(* async_setup_entry: a new coordinator, whose first refresh starts with  *)
(* the login                                                              *)
SetupEntry(a) ==
    /\ entryState[a] \in {"not_loaded", "setup_error"}
    /\ acctToken' = [acctToken EXCEPT ![a] = NoneToken]
    /\ acctExpiry' = [acctExpiry EXCEPT ![a] = NoExpiry]
    /\ acctPc' = [acctPc EXCEPT ![a] = "login1"]
    /\ acctResult' = [acctResult EXCEPT ![a] = "pending"]
    /\ entryState' = [entryState EXCEPT ![a] = "setup_in_progress"]
    /\ setupResult' = [setupResult EXCEPT ![a] = "pending"]
    /\ actor' = a
    /\ UNCHANGED <<hassData, platformData>>
    /\ UNCHANGED <<coordVars, sensorVars, entityVars, flowVars>>

(* the scheduler polls the coordinator of a loaded entry *)
AccountPoll(a) ==
    /\ entryState[a] \in {"loaded", "failed_unload"}
    /\ acctPc[a] = "idle"
    /\ LET step == IF Falsy(acctToken[a]) THEN "login1"
                   ELSE ExpiryCheckStep(acctToken[a], acctExpiry[a], now)
       IN /\ acctPc' = [acctPc EXCEPT ![a] = IF step = "raise" THEN "idle" ELSE step]
          /\ acctResult' = [acctResult EXCEPT ![a] =
                                IF step = "raise" THEN "raised" ELSE "pending"]
    /\ actor' = a
    /\ UNCHANGED <<acctToken, acctExpiry, entryState, hassData, setupResult, platformData>>
    /\ UNCHANGED <<coordVars, sensorVars, entityVars, flowVars>>

(* the login POST of entry a completes *)
AccountLoginResponse(a) ==
    /\ acctPc[a] \in {"login1", "login2"}
    /\ \E resp \in AccountLoginResponses(a, now) :
        LET r == async_renew_token(acctToken[a], acctExpiry[a], resp, now)
            step == AfterRenew(acctPc[a], r, now)
        IN
        /\ acctToken' = [acctToken EXCEPT ![a] = r.token]
        /\ acctExpiry' = [acctExpiry EXCEPT ![a] = r.expiry]
        /\ IF step \in {"fail", "raise"}
           THEN /\ acctPc' = [acctPc EXCEPT ![a] = "idle"]
                /\ acctResult' = [acctResult EXCEPT ![a] = "raised"]
                /\ RefreshDone(a, FALSE)
           ELSE /\ acctPc' = [acctPc EXCEPT ![a] = step]
                /\ UNCHANGED <<acctResult, entryState, hassData, setupResult>>
    /\ actor' = a
    /\ UNCHANGED platformData
    /\ UNCHANGED <<coordVars, sensorVars, entityVars, flowVars>>

(* the GET of entry a completes *)
AccountGetResponse(a) ==
    /\ acctPc[a] = "get"
    /\ \E resp \in AccountGetResponses :
        /\ acctResult' = [acctResult EXCEPT ![a] = UpdateResult(resp).status]
        /\ RefreshDone(a, UpdateResult(resp).status = "ok")
    /\ acctPc' = [acctPc EXCEPT ![a] = "idle"]
    /\ actor' = a
    /\ UNCHANGED <<acctToken, acctExpiry, platformData>>
    /\ UNCHANGED <<coordVars, sensorVars, entityVars, flowVars>>

(* async_unload_entry: the coordinator is popped, then the platforms are  *)
(* unloaded and their outcome is returned                                 *)
UnloadEntry(a) ==
    /\ entryState[a] = "loaded"
    /\ acctPc[a] = "idle"
    /\ hassData' = RemoveCoordinator(hassData, a)
    /\ \E unload_ok \in BOOLEAN :
        /\ entryState' = [entryState EXCEPT ![a] =
                             IF unload_ok THEN "not_loaded" ELSE "failed_unload"]
        /\ setupResult' = [setupResult EXCEPT ![a] =
                              IF unload_ok THEN "True" ELSE "False"]
        /\ platformData' = [platformData EXCEPT ![a] =
                               IF unload_ok THEN "none" ELSE platformData[a]]
    /\ actor' = a
    /\ UNCHANGED <<acctToken, acctExpiry, acctPc, acctResult>>
    /\ UNCHANGED <<coordVars, sensorVars, entityVars, flowVars>>

NextAccounts ==
    \E a \in Accounts :
        \/ SetupEntry(a)
        \/ AccountPoll(a)
        \/ AccountLoginResponse(a)
        \/ AccountGetResponse(a)
        \/ ForwardPlatforms(a)
        \/ UnloadEntry(a)

SpecAccounts == Init /\ [][NextAccounts]_vars

----------------------------------------------------------------------------
(* The config flow: the user step validates a submission by logging in  *)

Usernames == {"u1", "u2"}
MissingKey == "<missing>"
TimeoutValues == {-1, 0, 1, 5, 30, 31}

(* the value under "timeout": an int, a text spelling an int, a text     *)
(* spelling none, or no such key                                         *)
TimeoutInputs ==
    { [kind |-> "missing", v |-> 0], [kind |-> "junk", v |-> 0] }
    \cup { [kind |-> k, v |-> v] : k \in {"int", "text"}, v \in TimeoutValues }

UserInputs ==
    { [given |-> TRUE, username |-> u, password |-> pw, timeout |-> t] :
        u \in Usernames \cup {MissingKey},
        pw \in {"pw", MissingKey},
        t \in TimeoutInputs }

Invalid == [valid |-> FALSE, v |-> 0]
Valid(v) == [valid |-> TRUE, v |-> v]

(* vol.Coerce(int) *)
CoerceInt(t) == IF t.kind \in {"int", "text"} THEN Valid(t.v) ELSE Invalid

(* cv.positive_int: vol.All(vol.Coerce(int), vol.Range(min=0)) *)
positive_int(t) ==
    LET c == CoerceInt(t) IN
    IF c.valid /\ c.v >= 0 THEN c ELSE Invalid

DefaultTimeout == 5

(* the validator of "timeout" without its Range *)
TimeoutValidator_unbounded(t) ==
    positive_int(t)

(* vol.All(cv.positive_int, vol.Range(min=1, max=30)) *)
TimeoutValidator(t) ==
    LET c == positive_int(t) IN
    IF c.valid /\ c.v >= 1 /\ c.v <= 30 THEN c ELSE Invalid

SchemaInvalid == [valid |-> FALSE, username |-> MissingKey,
                  password |-> MissingKey, timeout |-> 0]

(* STEP_USER_DATA_SCHEMA(user_input): the validated data, or vol.Invalid *)
STEP_USER_DATA_SCHEMA(in) ==
    IF in.username = MissingKey \/ in.password = MissingKey THEN SchemaInvalid
    ELSE IF in.timeout.kind = "missing"
    THEN [valid |-> TRUE, username |-> in.username, password |-> in.password,
          timeout |-> DefaultTimeout]
    ELSE IF TimeoutValidator(in.timeout).valid
    THEN [valid |-> TRUE, username |-> in.username, password |-> in.password,
          timeout |-> TimeoutValidator(in.timeout).v]
    ELSE SchemaInvalid

(* what can come back from the POST of _validate_input *)
FlowLoginResponses ==
    { [net |-> x, status |-> 0, body |-> "none", jwt |-> NoneToken] :
        x \in {"ClientConnectionError", "TimeoutError"} }
    \cup { [net |-> "ok", status |-> st, body |-> "dict", jwt |-> NoneToken] :
        st \in {401, 403, 404, 429, 500, 503} }
    \cup { [net |-> "ok", status |-> 200, body |-> b, jwt |-> NoneToken] :
        b \in {"not_json", "bad_json", "list"} }
    \cup { [net |-> "ok", status |-> 200, body |-> "dict", jwt |-> j] :
        j \in {NoneToken, EmptyToken, HeldToken} }

(* _map_http_error *)
map_http_error(status) ==
    IF status = 401 THEN "invalid_auth"
    ELSE IF status = 403 THEN "forbidden"
    ELSE IF status = 404 THEN "not_found"
    ELSE IF status = 429 THEN "too_many_requests"
    ELSE IF status = 503 THEN "service_unavailable"
    ELSE "unknown_error"

(* the try block of _validate_input up to login_response.get("jwt"):     *)
(* the exception it raises, if any                                       *)
ValidateTry(resp) ==
    IF resp.net # "ok" THEN resp.net
    ELSE IF raise_for_status(resp.status) THEN "ClientResponseError"
    ELSE IF resp.body = "not_json" THEN "ContentTypeError"
    ELSE IF resp.body = "bad_json" THEN "JSONDecodeError"
    ELSE IF resp.body = "list" THEN "AttributeError"
    ELSE "none"

ValidationSuccess(jwt) == [raised |-> "none", status |-> "success", error |-> "none", jwt_token |-> jwt]
ValidationError(code) == [raised |-> "none", status |-> "error", error |-> code, jwt_token |-> NoneToken]
ValidationRaised(exc) == [raised |-> exc, status |-> "none", error |-> "none", jwt_token |-> NoneToken]

(* _validate_input taking every decoded response for a success *)
validate_input_any_body(resp) ==
    LET exc == ValidateTry(resp) IN
    IF exc = "none" THEN ValidationSuccess(resp.jwt)
    ELSE IF exc \in {"ClientResponseError", "ContentTypeError"}
    THEN ValidationError(map_http_error(resp.status))
    ELSE IF IsClientError(exc) THEN ValidationError("network_error")
    ELSE ValidationRaised(exc)

(* _validate_input: its result, or the exception it lets through *)
validate_input(resp) ==
    LET exc == ValidateTry(resp) IN
    IF exc = "none"
    THEN IF ~Falsy(resp.jwt) THEN ValidationSuccess(resp.jwt)
         ELSE ValidationError("invalid_auth")
    ELSE IF exc \in {"ClientResponseError", "ContentTypeError"}
    THEN ValidationError(map_http_error(resp.status))
    ELSE IF IsClientError(exc) THEN ValidationError("network_error")
    ELSE ValidationRaised(exc)

(* map_error_to_message *)
map_error_to_message(error_code) ==
    IF error_code = "invalid_auth" THEN "Invalid username or password."
    ELSE IF error_code = "service_unavailable"
    THEN "The service is currently unavailable. Please try again later."
    ELSE IF error_code = "network_error"
    THEN "Network error. Check your internet connection."
    ELSE IF error_code = "invalid_timeout"
    THEN "The timeout value is invalid. Please provide a value between 1 and 30 seconds."
    ELSE IF error_code = "already_configured"
    THEN "This entry is already configured. Please use a different username or update the existing configuration."
    ELSE IF error_code = "unknown_error"
    THEN "An unknown error occurred. Please try again."
    ELSE "unknown_error"

NoErrors == {}
BaseError(msg) == {<<"base", msg>>}

FormResult(errors) == [type |-> "form", step_id |-> "user", errors |-> errors]
AbortResult(reason) == [type |-> "abort", reason |-> reason]
CreateEntryResult(title) == [type |-> "create_entry", title |-> title]
FlowPending == [type |-> "pending"]

(* async_step_user from the return of _validate_input on (lines 110-153); *)
(* current is self._async_current_entries()                               *)
StepResult(r, username, current) ==
    IF r.raised # "none" THEN FormResult(BaseError("unknown_error: " \o r.raised))
    ELSE IF r.status = "success"
    THEN IF current # {} THEN AbortResult("already_configured")
         ELSE CreateEntryResult(username)
    ELSE FormResult(BaseError(map_error_to_message(r.error)))

(* async_step_user(None): the empty form *)
ShowUserForm ==
    /\ flowPc = "idle"
    /\ flowInput' = NoInput
    /\ flowResult' = FormResult(NoErrors)
    /\ flowLogins' = <<>>
    /\ flowResp' = NoResp
    /\ UNCHANGED <<flowPc, entries>>
    /\ UNCHANGED <<coordVars, sensorVars, entityVars, acctVars>>

(* async_step_user(user_input) up to the await of _validate_input, or to  *)
(* its end when the schema rejects the input                              *)
SubmitUser ==
    /\ flowPc = "idle"
    /\ \E in \in UserInputs :
        LET validated_data == STEP_USER_DATA_SCHEMA(in) IN
        /\ flowInput' = in
        /\ IF validated_data.valid
           THEN /\ flowPc' = "validating"
                /\ flowLogins' = <<[username |-> validated_data.username,
                                    password |-> validated_data.password,
                                    timeout |-> validated_data.timeout]>>
                /\ flowResult' = FlowPending
           ELSE /\ flowPc' = "idle"
                /\ flowLogins' = <<>>
                /\ flowResult' = FormResult(BaseError("invalid_input"))
    /\ flowResp' = NoResp
    /\ UNCHANGED entries
    /\ UNCHANGED <<coordVars, sensorVars, entityVars, acctVars>>

(* the login POST completes; async_step_user runs to its end *)
FlowLoginResponse ==
    /\ flowPc = "validating"
    /\ \E resp \in FlowLoginResponses :
        LET outcome == StepResult(validate_input(resp), flowLogins[1].username, entries) IN
        /\ flowResp' = LoginResp(resp)
        /\ flowResult' = outcome
        /\ entries' = IF outcome.type = "create_entry"
                      THEN entries \cup {outcome.title} ELSE entries
    /\ flowPc' = "idle"
    /\ UNCHANGED <<flowInput, flowLogins>>
    /\ UNCHANGED <<coordVars, sensorVars, entityVars, acctVars>>

NextFlow == ShowUserForm \/ SubmitUser \/ FlowLoginResponse

SpecFlow == Init /\ [][NextFlow]_vars

----------------------------------------------------------------------------
(* Properties of the token lifecycle and of a poll *)

(* C1: is_token_expired returns True exactly when no expiry is stored or   *)
(* the current time is at or after the stored expiry minus 5 minutes, the  *)
(* boundary instant included; it returns False otherwise.                  *)
C1_ExpiredExactly ==
    lastCheck.called =>
        (lastCheck.expired <=> (~lastCheck.set \/ lastCheck.t >= lastCheck.at - 5))

(* is_token_expired was called at the boundary instant now = expiry - 5 *)
C1_Witness ==
    /\ lastCheck.called
    /\ lastCheck.set
    /\ lastCheck.t = lastCheck.at - 5
    /\ lastCheck.expired

(* C2: every failure of a poll reaches the caller as UpdateFailed; no      *)
(* other exception type leaves _async_update_data.                         *)
C2_OnlyUpdateFailed ==
    result.status = "raised" => result.exc = "UpdateFailed"

(* a poll failed because the login request timed out *)
C2_Witness ==
    /\ result.status = "raised"
    /\ result.exc = "UpdateFailed"
    /\ result.cause = "TimeoutError"
    /\ logins = 1

(* C3: whenever get_valid_token returns a token and the GET is sent, the   *)
(* token is set and the current time is strictly before its stored expiry  *)
(* minus 5 minutes.                                                        *)
C3_TokenUsableWhenReturned ==
    [][(pc # "get" /\ pc' = "get") =>
           (~Falsy(token') /\ expiry'.set /\ now' < expiry'.at - 5)]_vars

(* C4: a poll that starts with a stored token more than 5 minutes before   *)
(* its expiry sends no login request and leaves the stored token and       *)
(* expiry as they were.                                                    *)
C4_NoRenewalWhileUsable ==
    [][pollUsable' => (logins' = 0 /\ token' = token /\ expiry' = expiry)]_vars

(* a poll ran inside the warning window (30 to 5 minutes before expiry)    *)
(* and fetched its data without a login                                    *)
C4_Witness ==
    /\ pollUsable
    /\ lastCheck.warned
    /\ ~lastCheck.expired
    /\ logins = 0
    /\ gets = 1
    /\ result.status = "ok"

(* C5: in a poll that starts with the token absent or expired, a GET is    *)
(* sent only after a login of that poll has succeeded, and it carries the  *)
(* token of the most recent successful login of that poll.                 *)
C5_GetCarriesRenewedToken ==
    (gets >= 1 /\ ~pollUsable) => (lastLogin # NoneToken /\ getToken = lastLogin)

(* the stored token had expired, one login renewed it and the GET was sent *)
C5_Witness ==
    /\ ~pollUsable
    /\ logins = 1
    /\ lastCheck.called
    /\ lastCheck.expired
    /\ gets = 1
    /\ getToken = lastLogin
    /\ getToken # NoneToken

(* C6: a poll sends at most one GET; a poll that succeeds sent exactly one *)
(* GET and returns the parsed payload of its response unchanged; a poll    *)
(* that fails returns no payload.                                          *)
C6_OneGetOnePayload ==
    /\ gets <= 1
    /\ result.status = "ok" =>
           (gets = 1 /\ result.payload \in Payloads /\ result.payload = getBody)
    /\ result.status = "raised" => result.payload = NoPayload

(* a poll succeeded with the payload of its one GET *)
C6_Witness ==
    /\ result.status = "ok"
    /\ gets = 1
    /\ result.payload = "p2"

(* C7: once a login request or the GET of a poll has failed, the poll has  *)
(* ended with the failure and sends no further request.                    *)
C7_NoRetryInPoll ==
    failedReq => (pc = "idle" /\ result.status = "raised")

(* the login of a poll failed: one request was sent, and no GET *)
C7_Witness ==
    /\ failedReq
    /\ logins = 1
    /\ gets = 0
    /\ pc = "idle"

(* C8 as stated: a renewal whose token carries no exp claim fails with     *)
(* UpdateFailed and the poll sends no GET.                                 *)
C8_MissingExpFails ==
    lastJwtForm = "no_exp" => (result.status = "raised" /\ gets = 0)

(* C8 amended: a renewal whose token carries no exp claim succeeds: the    *)
(* token is stored, the stored expiry is one hour after the current time,  *)
(* and the poll goes on to send its GET.                                   *)
C8_MissingExpDefaults ==
    [][(pc \in {"login1", "login2"} /\ pc' # pc /\ lastJwtForm' = "no_exp") =>
           /\ token'.form = "no_exp"
           /\ token' = lastLogin'
           /\ expiry' = ExpiryAt(now + 60)
           /\ pc' = "get"
           /\ gets' = 1
           /\ result'.status = "pending"]_vars

(* a login returned a token without exp and the GET is in flight *)
C8_Witness ==
    /\ lastJwtForm = "no_exp"
    /\ token.form = "no_exp"
    /\ pc = "get"
    /\ expiry.set
    /\ expiry.at = now + 60

(* C9: is_token_expired logs the warning whenever the stored expiry is     *)
(* within 30 minutes of now while the token is still usable, and logs none *)
(* when the expiry is more than 30 minutes away or no expiry is stored.    *)
C9_WarningWindow ==
    lastCheck.called =>
        /\ (lastCheck.set /\ lastCheck.at - 30 <= lastCheck.t
                /\ lastCheck.t < lastCheck.at - 5) => lastCheck.warned
        /\ (~lastCheck.set \/ lastCheck.at - 30 > lastCheck.t) => ~lastCheck.warned

(* is_token_expired warned at the instant now = expiry - 30 *)
C9_Witness ==
    /\ lastCheck.called
    /\ lastCheck.set
    /\ lastCheck.t = lastCheck.at - 30
    /\ lastCheck.warned
    /\ ~lastCheck.expired

----------------------------------------------------------------------------
(* Properties of the sensors *)

(* the values the fixture payload is expected to give, by sensor key *)
ExpectedExample(key) ==
    CASE key = "address" -> PyStr(<<"M", "i", "j", "n", "s", "t", "r", "a", "a", "t", " ", "1", " ", "1", "0", "0", "0", " ", "A", "A", "B", " ", "A", "M", "S", "T", "E", "R", "D", "A", "M">>)
      [] key = "electricity_ean" -> PyStr(<<"1", "2", "3", "4", "5", "6", "7", "8", "9", "0", "1", "2", "3", "4", "5", "6", "7", "8">>)
      [] key = "connection_capacity" -> PyStr(<<"3", "x", "2", "5", "A">>)
      [] key = "status" -> PyStr(<<"I", "n", " ", "b", "e", "d", "r", "i", "j", "f">>)
      [] key = "number_of_meters" -> PyInt(1)
      [] key = "network_costs" -> PyStr(<<"4", "0", "0", ".", "9", "2">>)
      [] key = "maximum_power" -> PyStr(<<"1", "7">>)
      [] key = "meter_number" -> PyStr(<<"E", "0", "0", "0", "0", "0", "0", "0", "0", "0", "0", "0", "0", "0", "0", "0", "0">>)
      [] key = "number_of_registers" -> PyInt(4)
      [] key = "number_of_phases" -> PyStr(<<"3">>)

(* C10: with coordinator.data equal to example_data every sensor reports   *)
(* the literal value of the fixture for its key.                           *)
C10_FixtureValues ==
    (sensorData = example_data /\ sensorValue # Unset) =>
        sensorValue = ExpectedExample(sensorKey)

(* the address sensor was evaluated on the fixture *)
C10_Witness ==
    /\ sensorData = example_data
    /\ sensorKey = "address"
    /\ sensorValue = PyStr(<<"M", "i", "j", "n", "s", "t", "r", "a", "a", "t", " ", "1", " ", "1", "0", "0", "0", " ", "A", "A", "B", " ", "A", "M", "S", "T", "E", "R", "D", "A", "M">>)

(* C11: reading a sensor or binary-sensor property (native_value, icon,   *)
(* is_on, extra_state_attributes) leaves the coordinator's data, stored   *)
(* token and stored expiry as they were and sends no HTTP request.        *)
C11_EntitiesReadOnly ==
    [][/\ sensorData' = sensorData
       /\ token' = token
       /\ expiry' = expiry
       /\ inflight' = inflight
       /\ logins' = logins
       /\ gets' = gets
       /\ pc' = pc]_vars

(* is_on was read as True from a payload while the coordinator holds a token *)
C11_Witness ==
    /\ entityRead = "is_on"
    /\ binaryKey = "slimmeMeter"
    /\ entityValue = PyBool(TRUE)
    /\ token = HeldToken
    /\ sensorValue # Unset

C15_NeverWedged ==
    /\ [][/\ (pc = "idle" /\ pc' = "idle") => result' = result
          /\ (pc \in {"login1", "login2"} /\ pc' # pc /\ GoodLogin(lastResp', now))
                 => pc' = "get"
          /\ (pc = "get" /\ pc' # pc /\ GoodGet(lastResp'))
                 => (result'.status = "ok" /\ result'.payload = lastResp'.resp.payload)]_vars
    /\ []<>(result.status = "ok")

(* a poll succeeded after an earlier renewal had stored an undecodable token *)
C15_Witness ==
    /\ result.status = "ok"
    /\ logins = 1
    /\ lastCheck.called
    /\ ~lastCheck.set
    /\ token.form = "exp"

(* C16: after a successful renewal the stored token is the jwt of the     *)
(* login response and the stored expiry is exactly the instant of that    *)
(* token's exp claim.                                                     *)
C16_ExpiryIsExpClaim ==
    [][(pc \in {"login1", "login2"} /\ pc' # pc /\ ~failedReq') =>
           /\ token' = lastResp'.resp.jwt
           /\ lastResp'.resp.jwt.form = "exp" =>
                  expiry' = ExpiryAt(lastResp'.resp.jwt.exp)]_vars

(* C17: a token whose expiry could not be determined is never used: every *)
(* GET carries a token that was decoded, never an undecodable or null one, *)
(* and a poll that starts with such a token stored logs in first.         *)
C17_UndecodedTokenNeverUsed ==
    /\ [](gets >= 1 => getToken.form \in {"exp", "no_exp"})
    /\ [][(pc = "idle" /\ pc' # "idle" /\ token.form \notin {"exp", "no_exp"})
              => pc' \in {"login1", "login2"}]_vars

(* an undecodable token is stored and the next poll has sent a login *)
C17_Witness ==
    /\ token.form = "garbage"
    /\ pc = "login2"
    /\ logins = 1
    /\ gets = 0

(* a login response that fails before its body is read as a JSON object *)
HttpStageFailure(resp) ==
    \/ resp.net # "ok"
    \/ resp.status >= 400
    \/ resp.body \in {"not_json", "bad_json"}

(* C18: a GET response, failed or not, leaves the stored token and expiry *)
(* unchanged, and so does a login that fails at the HTTP stage; a poll    *)
(* that starts with a stored token more than 5 minutes before its expiry  *)
(* sends its GET with that same token.                                    *)
C18_FailuresKeepToken ==
    [][/\ (pc = "get" /\ pc' # pc) => (token' = token /\ expiry' = expiry)
       /\ (pc \in {"login1", "login2"} /\ pc' # pc /\ HttpStageFailure(lastResp'.resp))
              => (token' = token /\ expiry' = expiry)
       /\ (pc = "idle" /\ pc' # "idle" /\ ~Falsy(token) /\ expiry.set
               /\ now < expiry.at - 5)
              => (pc' = "get" /\ getToken' = token /\ token' = token)]_vars

(* a GET was rejected with 401 and the token it carried is still stored *)
C18_Witness ==
    /\ lastResp.kind = "get"
    /\ lastResp.resp.status = 401
    /\ result.status = "raised"
    /\ token = getToken
    /\ token.form = "exp"

(* C19: a single poll sends at most one login request. *)
C19_OneLoginPerPoll ==
    logins <= 1

(* C12: accounts are isolated: a step taken for one account (setup, poll, *)
(* login answered with success or failure, GET answered, unload) leaves    *)
(* the stored token, the stored expiry and the hass.data[DOMAIN] entry of  *)
(* every other account as they were, whatever the interleaving.            *)
C12_AccountsIsolated ==
    [][\A b \in Accounts :
          actor' # b =>
              /\ acctToken'[b] = acctToken[b]
              /\ acctExpiry'[b] = acctExpiry[b]
              /\ hassData'[b] = hassData[b]]_vars

(* both accounts are loaded, each with its own token, and A's setup was   *)
(* the last step taken                                                    *)
C12_Witness ==
    /\ hassData = [a \in Accounts |-> a]
    /\ acctToken["A"].nonce = "a"
    /\ acctToken["B"].nonce = "b"
    /\ actor = "A"
    /\ setupResult["A"] = "True"
    /\ entryState = [a \in Accounts |-> "loaded"]

(* a timeout that is a number outside 1..30, as an int or spelled out *)
OutOfRange(in) ==
    /\ in.given
    /\ in.timeout.kind \in {"int", "text"}
    /\ (in.timeout.v < 1 \/ in.timeout.v > 30)

GoodFlowLogin(r) ==
    /\ r.kind = "login"
    /\ r.resp.net = "ok"
    /\ r.resp.status = 200
    /\ r.resp.body = "dict"
    /\ r.resp.jwt \notin {NoneToken, EmptyToken}

(* a submission the schema rejects *)
SchemaError(in) ==
    \/ in.username = MissingKey
    \/ in.password = MissingKey
    \/ in.timeout.kind = "junk"
    \/ OutOfRange(in)

(* C20: the user step creates a config entry only after a login request   *)
(* with the submitted credentials was answered with a jwt; after every     *)
(* validation failure (schema error, HTTP error status, network error,     *)
(* response without jwt, unexpected exception) no entry has been created   *)
(* and the form is shown again with a non-empty errors map.                *)
C20_EntryOnlyAfterLogin ==
    [][/\ (entries' # entries \/ flowResult'.type = "create_entry") =>
            /\ flowResult'.type = "create_entry"
            /\ GoodFlowLogin(flowResp')
            /\ Len(flowLogins') = 1
            /\ flowLogins'[1].username = flowInput'.username
            /\ flowLogins'[1].password = flowInput'.password
            /\ entries' = entries \cup {flowInput'.username}
       /\ (/\ flowInput'.given
           /\ flowPc' = "idle"
           /\ (SchemaError(flowInput') \/ ~GoodFlowLogin(flowResp'))) =>
            /\ flowResult'.type = "form"
            /\ flowResult'.errors # {}
            /\ entries' = entries]_vars

(* an entry was created, and a later submission whose login timed out is  *)
(* answered with the form                                                 *)
C20_Witness ==
    /\ entries # {}
    /\ flowInput.given
    /\ flowResp.kind = "login"
    /\ flowResp.resp.net = "TimeoutError"
    /\ flowResult.type = "form"

(* C21: when the login of a submission succeeded, the user step aborts    *)
(* with reason already_configured exactly when an entry with the          *)
(* submitted username exists; for a username without an entry it creates  *)
(* the entry, also when entries for other usernames exist.                *)
C21_AbortOnlyOnSameUsername ==
    [][(flowPc = "validating" /\ flowPc' = "idle" /\ GoodFlowLogin(flowResp')) =>
          IF flowInput.username \in entries
          THEN /\ flowResult' = AbortResult("already_configured")
               /\ entries' = entries
          ELSE /\ flowResult'.type = "create_entry"
               /\ entries' = entries \cup {flowInput.username}]_vars

(* the message texts of the table of map_error_to_message *)
ErrorMessages ==
    { "Invalid username or password.",
      "The service is currently unavailable. Please try again later.",
      "Network error. Check your internet connection.",
      "The timeout value is invalid. Please provide a value between 1 and 30 seconds.",
      "This entry is already configured. Please use a different username or update the existing configuration.",
      "An unknown error occurred. Please try again." }

(* C22: whenever login validation ended with an error code, the form is   *)
(* shown with errors["base"] being one of the message texts of the table  *)
(* of map_error_to_message, never a raw error code.                       *)
C22_ErrorsAreMessages ==
    (/\ flowPc = "idle"
     /\ flowResp.kind = "login"
     /\ validate_input(flowResp.resp).status = "error") =>
        /\ flowResult.type = "form"
        /\ \E m \in ErrorMessages : flowResult.errors = BaseError(m)

(* C23: when the first refresh of an entry raises, async_setup_entry      *)
(* returns False, no coordinator is stored under the entry id and no      *)
(* platform is set up; when it succeeds, the coordinator is stored under  *)
(* the entry id while the platforms are not yet set up, the platforms     *)
(* then find that coordinator, and True is returned.                      *)
C23_SetupOutcome ==
    [][\A a \in Accounts :
          /\ (entryState[a] = "setup_in_progress" /\ acctResult'[a] = "raised") =>
                /\ entryState'[a] = "setup_error"
                /\ setupResult'[a] = "False"
                /\ hassData'[a] = Absent
                /\ platformData'[a] = "none"
          /\ (entryState[a] = "setup_in_progress" /\ acctResult'[a] = "ok") =>
                /\ hassData'[a] = a
                /\ platformData'[a] = "none"
                /\ setupResult'[a] = "pending"
          /\ (setupResult[a] = "pending" /\ setupResult'[a] # "pending") =>
                IF acctResult'[a] = "ok"
                THEN /\ setupResult'[a] = "True"
                     /\ hassData'[a] = a
                     /\ platformData'[a] = a
                ELSE /\ setupResult'[a] = "False"
                     /\ hassData'[a] = Absent
                     /\ platformData'[a] = "none"]_vars

(* the setup of A returned True with its platforms set up on the stored   *)
(* coordinator, and the setup of B returned False                         *)
C23_Witness ==
    /\ entryState["A"] = "loaded"
    /\ setupResult["A"] = "True"
    /\ platformData["A"] = "A"
    /\ hassData["A"] = "A"
    /\ entryState["B"] = "setup_error"
    /\ setupResult["B"] = "False"
    /\ acctResult["B"] = "raised"
    /\ actor = "B"

(* C24: between setup and unload calls, hass.data[DOMAIN] holds a         *)
(* coordinator for exactly the entries that are loaded; an entry whose    *)
(* platforms failed to unload stays loaded and keeps its coordinator.     *)
C24_DataMatchesLoaded ==
    \A a \in Accounts :
        entryState[a] \notin {"setup_in_progress", "forwarding"} =>
            (hassData[a] = a <=> entryState[a] \in {"loaded", "failed_unload"})

============================================================================
